---- MODULE Spec2Model ----
(***************************************************************************)
(* Request admission limiters of pyairtable-go-shared                      *)
(* (middleware/ratelimit.go): the in-process token bucket, the two Redis   *)
(* window limiters and the per-role dispatcher, together with the Redis    *)
(* counter they increment (cache/cache.go), the key functions and the      *)
(* context accessors they read (middleware/auth.go), and Config.Validate   *)
(* (config/config.go).  Beside them, each with a specification of its own: *)
(* the circuit breaker of the Redis client (cache/cache.go), the health    *)
(* Checker, the JWT middleware, RequestLogging with generateRequestID, and *)
(* the plan limits and quotas of a Tenant.                                 *)
(*                                                                         *)
(* Time is counted in ticks; one second is TicksPerSecond ticks.  Token    *)
(* levels are kept multiplied by TicksPerSecond, so that the continuous    *)
(* refill of golang.org/x/time/rate is exact in integers.                  *)
(***************************************************************************)
EXTENDS Integers, Sequences, FiniteSets, TLC

\* ------------------------------------------------------------------ bounds
MaxReq == 3
MaxUserReq == 2
MaxTime == 3
TicksPerSecond == 2
MaxRate == 2
MaxBurst == 2
MaxQuota == 2
MaxKeyReq == 1
MaxTwin == 2

VARIABLES
    now,            \* the wall clock, in ticks
    mw,             \* which middleware was constructed
    ctor,           \* "ready" or "panic": how the constructor ended
    config,         \* the RateLimitConfig captured by the constructor's closure
    roleConfig,     \* PerUserRateLimit: config map[string]RateLimitConfig
    defaultConfig,  \* PerUserRateLimit: defaultConfig
    limiters,       \* limiters maps: map id -> (key -> limiter id, 0 = absent)
    heap,           \* the *rate.Limiter objects, by id
    store,          \* the Redis counters: count key -> entry
    req,            \* the requests: inputs, handler position, locals, response
    crashed,        \* the Go runtime ended the process (fatal error)
    lib             \* the other packages of the library: the value at hand

vars == <<now, mw, ctor, config, roleConfig, defaultConfig, limiters, heap,
          store, req, crashed, lib>>

\* the requests of a run: at most MaxReq, or MaxTwin requests each given to
\* two middlewares
TwinReqs == 1..(2 * MaxTwin)
Reqs == 1..MaxReq \cup TwinReqs

\* c.ClientIP()
Addrs == {"10.0.0.1", "10.0.0.2"}

\* the partition keys: addresses, "user:" + userID, "tenant:" + tenantID
Keys == Addrs \cup {"user:u1", "tenant:t1"}
Paths == {"/api", "/health"}

Min(a, b) == IF a < b THEN a ELSE b

\* time.Minute, in ticks
Minute == 60 * TicksPerSecond

\* time.Time.Unix(): whole seconds
Unix(t) == t \div TicksPerSecond

\* ---------------------------------------------------------- configuration
Cfg(rps, burst, win, maxr, useRedis, client) ==
    [RequestsPerSecond |-> rps, BurstSize |-> burst, WindowSize |-> win,
     MaxRequests |-> maxr, KeyFunc |-> "nil", SkipPaths |-> {"/health"},
     UseRedis |-> useRedis, RedisClient |-> client]

\* the zero value of RateLimitConfig (var selectedConfig RateLimitConfig)
ZeroConfig ==
    [RequestsPerSecond |-> 0, BurstSize |-> 0, WindowSize |-> 0,
     MaxRequests |-> 0, KeyFunc |-> "nil", SkipPaths |-> {},
     UseRedis |-> FALSE, RedisClient |-> FALSE]

\* the defaults the window constructors fill in
WithDefaults(cfg) ==
    [cfg EXCEPT !.KeyFunc = IF @ = "nil" THEN "DefaultKeyFunc" ELSE @,
                !.WindowSize = IF @ = 0 THEN Minute ELSE @]

\* the default the token bucket constructor fills in
WithKeyFunc(cfg) ==
    [cfg EXCEPT !.KeyFunc = IF @ = "nil" THEN "DefaultKeyFunc" ELSE @]

\* the values of c.Request.Context(): none, a string, a value of another type
NoValue == [kind |-> "none", s |-> ""]
StringValue(str) == [kind |-> "string", s |-> str]
OtherValue == [kind |-> "int", s |-> ""]

\* a context key is compared by type and text: the string "user_id" that the
\* JWT middleware writes and GetUserIDFromContext reads, and the contextKey
\* constants UserIDKey, TenantIDKey
StringKey(k) == <<"string", k>>
TypedKey(k) == <<"contextKey", k>>
ContextKeys == {StringKey("user_id"), StringKey("tenant_id"),
                TypedKey("user_id"), TypedKey("tenant_id")}
NoValues == [k \in ContextKeys |-> NoValue]

\* the request contexts a handler is given
ContextValues ==
    {[k \in ContextKeys |->
        CASE k = StringKey("user_id") -> u
          [] k = StringKey("tenant_id") -> t
          [] k = TypedKey("user_id") -> d
          [] OTHER -> NoValue] :
     u \in {NoValue, StringValue(""), StringValue("u1"), OtherValue},
     t \in {NoValue, StringValue(""), StringValue("t1")},
     d \in {NoValue, StringValue("u1")}}

\* prefix + id, for the identifiers of the model
Concat(prefix, id) ==
    CASE prefix = "user:" /\ id = "u1" -> "user:u1"
      [] prefix = "tenant:" /\ id = "t1" -> "tenant:t1"
      [] id = "" -> prefix

\* c.Request.Context().Value("user_id").(string), "" when absent or no string
GetUserIDFromContext(r) ==
    LET v == r.values[StringKey("user_id")]
    IN  IF v.kind = "string" THEN v.s ELSE ""

\* c.Request.Context().Value("tenant_id").(string)
GetTenantIDFromContext(r) ==
    LET v == r.values[StringKey("tenant_id")]
    IN  IF v.kind = "string" THEN v.s ELSE ""

\* DefaultKeyFunc: the client address
DefaultKeyFunc(r) == r.ip

TenantKeyFunc(r) ==
    LET tenantID == GetTenantIDFromContext(r)
    IN  IF tenantID # "" THEN Concat("tenant:", tenantID) ELSE r.ip

\* a key function that reads the tenant ID where it is to read the user ID
UserKeyFunc_Tenant(r) ==
    LET userID == GetTenantIDFromContext(r)
    IN  IF userID # "" THEN Concat("tenant:", userID) ELSE r.ip

UserKeyFunc(r) ==
    LET userID == GetUserIDFromContext(r)
    IN  IF userID # "" THEN Concat("user:", userID) ELSE r.ip

KeyFuncs == {"nil", "DefaultKeyFunc", "UserKeyFunc", "TenantKeyFunc"}

\* config.KeyFunc(c)
KeyOf(cfg, r) ==
    CASE cfg.KeyFunc = "UserKeyFunc" -> UserKeyFunc(r)
      [] cfg.KeyFunc = "TenantKeyFunc" -> TenantKeyFunc(r)
      [] cfg.KeyFunc = "DefaultKeyFunc" -> DefaultKeyFunc(r)

\* a skip test that is never true for the health path
IsSkipped_Slash(cfg, path) == \E p \in cfg.SkipPaths : path = p /\ p = "/"

\* for _, path := range config.SkipPaths { if c.Request.URL.Path == path
IsSkipped(cfg, path) == \E p \in cfg.SkipPaths : path = p

\* ------------------------------------------- golang.org/x/time/rate.Limiter
\* rate.NewLimiter(r, b): the bucket starts full
NewLimiter(r, b) ==
    [limit |-> r, burst |-> b, tokens |-> b * TicksPerSecond, last |-> 0]

\* Limiter.advance: the token level at time t (times TicksPerSecond)
advance(lim, t) ==
    Min(lim.burst * TicksPerSecond, lim.tokens + (t - lim.last) * lim.limit)

\* Limiter.reserveN(t, 1, maxFutureReserve); maxFutureReserve is 0 for
\* Allow() and InfDuration for Reserve().  wait is the delay times limit.
reserveN(lim, t, inf) ==
    LET tokens == advance(lim, t) - TicksPerSecond
        wait == IF tokens < 0 THEN 0 - tokens ELSE 0
        ok == 1 <= lim.burst /\ (inf \/ wait = 0)
    IN  [ok |-> ok, wait |-> wait,
         lim |-> IF ok THEN [lim EXCEPT !.tokens = tokens, !.last = t]
                 ELSE lim]

\* int(limiter.Reserve().Delay().Seconds()) + 1
BucketRetryAfter(res) ==
    (res.wait \div (res.lim.limit * TicksPerSecond)) + 1

\* --------------------------------------------------------- Redis counters
NoEntry == [count |-> 0, ttl |-> FALSE, exp |-> 0]

\* whether the key exists at time t
Live(e, t) == e.count > 0 /\ (~e.ttl \/ t < e.exp)

\* INCRBY key 1 at time t
IncrEntry(e, t) ==
    IF Live(e, t) THEN [e EXCEPT !.count = @ + 1]
    ELSE [count |-> 1, ttl |-> FALSE, exp |-> 0]

\* a time-to-live that ends one tick before d has passed
ExpireEntry_Short(e, t, d) ==
    IF Live(e, t) THEN [e EXCEPT !.ttl = TRUE, !.exp = t + d - 1] ELSE e

\* EXPIRE key d at time t
ExpireEntry(e, t, d) ==
    IF Live(e, t) THEN [e EXCEPT !.ttl = TRUE, !.exp = t + d] ELSE e

\* now.Truncate(config.WindowSize)
Truncate(t, d) == (t \div d) * d

\* a counter key without the window start: one counter per partition key
WindowKey_NoWindow(key, window) == <<"ratelimit", key, 0>>

\* fmt.Sprintf("%s:%d", "ratelimit:" + key, window.Unix())
WindowKey(key, window) == <<"ratelimit", key, Unix(window)>>

StoreKeys == {<<"ratelimit", k, u>> : k \in Keys, u \in 0..Unix(MaxTime)}

\* the Redis servers: the one every middleware is connected to, and a second
\* one for a middleware that is run beside it on a store of its own
Stores == {1, 2}

\* --------------------------------------------------------------- responses
NoHeaders == [h \in {} |-> 0]
NoBody == [code |-> "", message |-> "", retry_after |-> 0]

\* errors.NewRateLimitedError(retryAfter), sent with http.StatusTooManyRequests
NewRateLimitedError(retryAfter) ==
    [code |-> "RATE_LIMITED", message |-> "Rate limit exceeded",
     retry_after |-> retryAfter]

\* a window that slides with the request: the reset time counted from now
SlidingWindowDecide_FromNow(cfg, count, tnow) ==
    LET reset == Unix(tnow + cfg.WindowSize)
    IN  IF count > cfg.MaxRequests
        THEN [outcome |-> "abort", status |-> 429,
              hdr |-> ("X-RateLimit-Limit" :> cfg.MaxRequests
                       @@ "X-RateLimit-Remaining" :> 0
                       @@ "X-RateLimit-Reset" :> reset
                       @@ "X-RateLimit-Window" :> cfg.WindowSize),
              body |-> NewRateLimitedError(
                  (cfg.WindowSize \div TicksPerSecond) + 1)]
        ELSE [outcome |-> "next", status |-> 0,
              hdr |-> ("X-RateLimit-Limit" :> cfg.MaxRequests
                       @@ "X-RateLimit-Remaining" :> cfg.MaxRequests - count
                       @@ "X-RateLimit-Reset" :> reset
                       @@ "X-RateLimit-Window" :> cfg.WindowSize),
              body |-> NoBody]

\* SlidingWindowRateLimit, after a successful increment: the limit check,
\* the headers and the response
SlidingWindowDecide(cfg, count, tnow) ==
    LET window == Truncate(tnow, cfg.WindowSize)
        reset == Unix(window + cfg.WindowSize)
    IN  IF count > cfg.MaxRequests
        THEN [outcome |-> "abort", status |-> 429,
              hdr |-> ("X-RateLimit-Limit" :> cfg.MaxRequests
                       @@ "X-RateLimit-Remaining" :> 0
                       @@ "X-RateLimit-Reset" :> reset
                       @@ "X-RateLimit-Window" :> cfg.WindowSize),
              body |-> NewRateLimitedError(
                  ((window + cfg.WindowSize - tnow) \div TicksPerSecond) + 1)]
        ELSE [outcome |-> "next", status |-> 0,
              hdr |-> ("X-RateLimit-Limit" :> cfg.MaxRequests
                       @@ "X-RateLimit-Remaining" :> cfg.MaxRequests - count
                       @@ "X-RateLimit-Reset" :> reset
                       @@ "X-RateLimit-Window" :> cfg.WindowSize),
              body |-> NoBody]

\* a limit check that rejects the request that reaches the limit
FixedWindowDecide_AtLimit(cfg, count, tnow) ==
    IF count >= cfg.MaxRequests
    THEN [outcome |-> "abort", status |-> 429,
          hdr |-> ("X-RateLimit-Limit" :> cfg.MaxRequests
                   @@ "X-RateLimit-Remaining" :> 0
                   @@ "X-RateLimit-Reset" :>
                        Unix(Truncate(tnow, cfg.WindowSize) + cfg.WindowSize)
                   @@ "X-RateLimit-Window" :> cfg.WindowSize),
          body |-> NewRateLimitedError(1)]
    ELSE SlidingWindowDecide(cfg, count, tnow)

\* headers that always carry remaining := config.MaxRequests - int(count)
FixedWindowDecide_Negative(cfg, count, tnow) ==
    LET d == SlidingWindowDecide(cfg, count, tnow)
    IN  [d EXCEPT !.hdr = [@ EXCEPT !["X-RateLimit-Remaining"] =
                               cfg.MaxRequests - count]]

\* FixedWindowRateLimit, after a successful increment
FixedWindowDecide(cfg, count, tnow) ==
    LET window == Truncate(tnow, cfg.WindowSize)
        remaining == IF count > cfg.MaxRequests THEN 0
                     ELSE cfg.MaxRequests - count
        reset == Unix(window + cfg.WindowSize)
        hdr == "X-RateLimit-Limit" :> cfg.MaxRequests
               @@ "X-RateLimit-Remaining" :> remaining
               @@ "X-RateLimit-Reset" :> reset
               @@ "X-RateLimit-Window" :> cfg.WindowSize
        retryAfter ==
            ((window + cfg.WindowSize - tnow) \div TicksPerSecond) + 1
    IN  IF count > cfg.MaxRequests
        THEN [outcome |-> "abort", status |-> 429, hdr |-> hdr,
              body |-> NewRateLimitedError(retryAfter)]
        ELSE [outcome |-> "next", status |-> 0, hdr |-> hdr,
              body |-> NoBody]

WindowDecide(mode, cfg, count, tnow) ==
    IF mode = "sliding" THEN SlidingWindowDecide(cfg, count, tnow)
    ELSE FixedWindowDecide(cfg, count, tnow)

\* the branch taken when IncrementBy returns an error: c.Next(); return
FailOpen == [outcome |-> "next", status |-> 0, hdr |-> NoHeaders,
             body |-> NoBody]

\* ---------------------------------------------------------------- requests
NoClaims == [present |-> FALSE, Roles |-> <<>>]

IdleReq ==
    [pc |-> "idle", path |-> "", ip |-> "", claims |-> NoClaims,
     values |-> NoValues,
     key |-> <<>>,
     cfg |-> ZeroConfig, mode |-> "none", map |-> 0, lim |-> 0,
     db |-> 1, ctx |-> "none", cancelled |-> FALSE,
     tnow |-> 0, count |-> 0, wait |-> 0, at |-> 0, nth |-> 0,
     inWin |-> FALSE,
     incrRes |-> "none", expRes |-> "none", nIncr |-> 0, nExp |-> 0,
     outcome |-> "none", status |-> 0, hdr |-> NoHeaders, body |-> NoBody]

InFlight(r) == req[r].pc \notin {"idle", "done"}

\* bookkeeping for the properties: the rank of a call among the calls made so
\* far with the same limiter map and partition key (token bucket), or with
\* the same partition key and window start (window)
NextNth(r, k) ==
    1 + Cardinality({q \in Reqs \ {r} :
                        /\ req[q].nth > 0
                        /\ req[q].map = req[r].map
                        /\ req[q].db = req[r].db
                        /\ req[q].key = k})

Finish(r0, d) ==
    [r0 EXCEPT !.pc = "done", !.outcome = d.outcome, !.status = d.status,
               !.hdr = d.hdr, !.body = d.body]

\* ------------------------------------------------------------ construction
BucketConfigs ==
    {Cfg(r, b, 0, 0, FALSE, FALSE) : r \in 1..MaxRate, b \in 1..MaxBurst}

WindowConfigs ==
    {Cfg(0, 0, w, n, TRUE, c) :
        w \in {0, TicksPerSecond}, n \in 1..MaxQuota, c \in BOOLEAN}

\* the policies a service gives to PerUserRateLimit: a token bucket that
\* sets only its own two fields, a token bucket with every field set, a
\* Redis window with and without its client
RolePolicies ==
    {Cfg(1, 1, 0, 0, FALSE, FALSE), Cfg(1, 2, TicksPerSecond, 2, FALSE, FALSE),
     Cfg(0, 0, TicksPerSecond, 1, TRUE, TRUE),
     Cfg(0, 0, TicksPerSecond, 1, TRUE, FALSE)}

DefaultPolicies ==
    {Cfg(1, 1, 0, 1, FALSE, FALSE), Cfg(0, 0, TicksPerSecond, 2, TRUE, TRUE)}

RoleMaps ==
    [{"admin"} -> RolePolicies]
    \cup {[role \in {"admin", "user"} |->
             IF role = first THEN Cfg(1, 2, TicksPerSecond, 2, FALSE, FALSE)
             ELSE Cfg(0, 0, TicksPerSecond, 1, TRUE, TRUE)] :
          first \in {"admin", "user"}}

\* no value of another package at hand
NoLib == [pkg |-> "none"]

InitState ==
    /\ now = 0
    /\ limiters = [m \in 0..MaxReq |-> [k \in Keys |-> 0]]
    /\ heap = [i \in Reqs |-> NewLimiter(0, 0)]
    /\ store = [d \in Stores |-> [k \in StoreKeys |-> NoEntry]]
    /\ req = [r \in Reqs |-> IdleReq]
    /\ crashed = FALSE
    /\ lib = NoLib

\* TokenBucketRateLimit(config): never panics
InitBucket ==
    /\ mw = "bucket"
    /\ \E c \in BucketConfigs : config = WithKeyFunc(c)
    /\ ctor = "ready"
    /\ roleConfig = <<>> /\ defaultConfig = ZeroConfig

\* SlidingWindowRateLimit(config), FixedWindowRateLimit(config): panic
\* without a Redis client
InitWindow ==
    /\ mw \in {"sliding", "fixed"}
    /\ \E c \in WindowConfigs :
          /\ config = (IF c.RedisClient THEN WithDefaults(c) ELSE c)
          /\ ctor = (IF c.RedisClient THEN "ready" ELSE "panic")
    /\ roleConfig = <<>> /\ defaultConfig = ZeroConfig

\* PerUserRateLimit(config, defaultConfig): returns the closure
InitPerUser ==
    /\ mw = "peruser"
    /\ config = ZeroConfig
    /\ ctor = "ready"
    /\ roleConfig \in RoleMaps
    /\ defaultConfig \in DefaultPolicies

Init == InitState /\ (InitBucket \/ InitWindow)

InitUser == InitState /\ InitPerUser

InitConc == Init /\ mw # "sliding"

\* SlidingWindowRateLimit(config) and FixedWindowRateLimit(config) side by
\* side, each with a client of its own
InitTwin ==
    /\ InitState
    /\ mw = "twin"
    /\ \E c \in WindowConfigs : c.RedisClient /\ config = WithDefaults(c)
    /\ ctor = "ready"
    /\ roleConfig = <<>> /\ defaultConfig = ZeroConfig

\* the three constructors, for each setting of config.KeyFunc
InitKey ==
    /\ InitState
    /\ ctor = "ready"
    /\ roleConfig = <<>> /\ defaultConfig = ZeroConfig
    /\ mw \in {"bucket", "sliding", "fixed"}
    /\ \E f \in KeyFuncs :
          config = IF mw = "bucket"
                   THEN WithKeyFunc([Cfg(1, MaxBurst, 0, 0, FALSE, FALSE)
                                        EXCEPT !.KeyFunc = f])
                   ELSE WithDefaults([Cfg(0, 0, 0, 1, TRUE, TRUE)
                                         EXCEPT !.KeyFunc = f])

\* ------------------------------------------------------------------ actions
\* the clock advances between two requests
TickIdle ==
    /\ ~crashed
    /\ now < MaxTime
    /\ \A q \in Reqs : req[q].pc \in {"idle", "done"}
    /\ now' = now + 1
    /\ UNCHANGED <<mw, ctor, config, roleConfig, defaultConfig, limiters, heap,
                   store, req, crashed, lib>>

\* the clock advances, also while requests are being handled
Tick ==
    /\ ~crashed
    /\ now < MaxTime
    /\ now' = now + 1
    /\ UNCHANGED <<mw, ctor, config, roleConfig, defaultConfig, limiters, heap,
                   store, req, crashed, lib>>

\* gin hands request r to the middleware; a request under PerUserRateLimit
\* may carry JWT claims
AcceptWith(r, path, ip, claims, values) ==
    /\ ~crashed
    /\ ctor = "ready"
    /\ req[r].pc = "idle"
    /\ \A q \in Reqs : q < r => req[q].pc # "idle"
    /\ mw = "peruser" => r <= MaxUserReq
    /\ mw = "peruser" \/ claims = NoClaims
    /\ req' = [req EXCEPT ![r] =
          [@ EXCEPT !.path = path, !.ip = ip, !.claims = claims,
                    !.values = values,
                    !.pc = IF mw = "peruser" THEN "select" ELSE "start",
                    !.cfg = config,
                    !.mode = IF mw = "peruser" THEN "none" ELSE mw]]
    /\ UNCHANGED <<now, mw, ctor, config, roleConfig, defaultConfig, limiters,
                   heap, store, crashed, lib>>

Accept(r, path, ip, claims) == AcceptWith(r, path, ip, claims, NoValues)

ClaimSets ==
    {NoClaims} \cup
    {[present |-> TRUE, Roles |-> rs] :
        rs \in {<<"admin">>, <<"guest">>, <<"user", "admin">>,
                <<"admin", "user">>}}

\* requests are handled one after the other
Arrive ==
    \E r \in 1..MaxReq, path \in Paths, ip \in Addrs, claims \in ClaimSets :
        /\ \A q \in Reqs : ~InFlight(q)
        /\ Accept(r, path, ip, claims)

\* requests are handled concurrently, one goroutine each
ArriveConc ==
    \E r \in 1..MaxReq, ip \in Addrs :
        Accept(r, "/api", ip, NoClaims)

\* requests that carry context values, one after the other
ArriveKey ==
    \E r \in 1..MaxKeyReq, ip \in Addrs, values \in ContextValues :
        /\ \A q \in Reqs : ~InFlight(q)
        /\ AcceptWith(r, "/api", ip, NoClaims, values)

\* the role whose policy PerUserRateLimit picks: the first role of the list
\* that is a key of the config map ("" when there is none)
RECURSIVE FirstConfigured(_, _)
FirstConfigured(roles, cfgs) ==
    IF roles = <<>> THEN ""
    ELSE IF Head(roles) \in DOMAIN cfgs THEN Head(roles)
    ELSE FirstConfigured(Tail(roles), cfgs)

\* PerUserRateLimit, down to "Use default config if no specific config found"
SelectConfig(claims, cfgs, dflt) ==
    LET role == IF claims.present THEN FirstConfigured(claims.Roles, cfgs)
                ELSE ""
        selectedConfig == IF role = "" THEN ZeroConfig ELSE cfgs[role]
    IN  IF selectedConfig.MaxRequests = 0 THEN dflt ELSE selectedConfig

\* PerUserRateLimit's closure: select the policy, construct its middleware
\* and call it on this request
PerUserSelect(r) ==
    /\ ~crashed
    /\ req[r].pc = "select"
    /\ LET selectedConfig == SelectConfig(req[r].claims, roleConfig, defaultConfig)
       IN  req' = [req EXCEPT ![r] =
             IF selectedConfig.UseRedis
             THEN IF selectedConfig.RedisClient
                  THEN [@ EXCEPT !.cfg = WithDefaults(selectedConfig),
                                 !.mode = "fixed", !.pc = "start"]
                  ELSE [@ EXCEPT !.cfg = selectedConfig, !.mode = "fixed",
                                 !.pc = "done", !.outcome = "panic"]
             ELSE [@ EXCEPT !.cfg = WithKeyFunc(selectedConfig),
                            !.mode = "bucket", !.map = r, !.pc = "start"]]
    /\ UNCHANGED <<now, mw, ctor, config, roleConfig, defaultConfig, limiters,
                   heap, store, crashed, lib>>

\* all three handlers: the path is one of config.SkipPaths
SkipPath(r) ==
    /\ ~crashed
    /\ req[r].pc = "start"
    /\ IsSkipped(req[r].cfg, req[r].path)
    /\ req' = [req EXCEPT ![r] = Finish(@, FailOpen)]
    /\ UNCHANGED <<now, mw, ctor, config, roleConfig, defaultConfig, limiters,
                   heap, store, crashed, lib>>

\* TokenBucketRateLimit: limiter, exists := limiters[key]
BucketLookup(r) ==
    /\ ~crashed
    /\ req[r].pc = "start"
    /\ req[r].mode = "bucket"
    /\ ~IsSkipped(req[r].cfg, req[r].path)
    /\ LET lim == limiters[req[r].map][KeyOf(req[r].cfg, req[r])]
       IN  req' = [req EXCEPT ![r] =
             [@ EXCEPT !.lim = lim,
                       !.pc = IF lim = 0 THEN "create" ELSE "allow"]]
    /\ UNCHANGED <<now, mw, ctor, config, roleConfig, defaultConfig, limiters,
                   heap, store, crashed, lib>>

\* TokenBucketRateLimit: limiter = rate.NewLimiter(...); limiters[key] = limiter
BucketCreate(r) ==
    /\ ~crashed
    /\ req[r].pc = "create"
    /\ heap' = [heap EXCEPT ![r] =
          NewLimiter(req[r].cfg.RequestsPerSecond, req[r].cfg.BurstSize)]
    /\ limiters' = [limiters EXCEPT
          ![req[r].map][KeyOf(req[r].cfg, req[r])] = r]
    /\ req' = [req EXCEPT ![r] = [@ EXCEPT !.lim = r, !.pc = "allow"]]
    /\ UNCHANGED <<now, mw, ctor, config, roleConfig, defaultConfig, store,
                   crashed, lib>>

\* the unsynchronised map: a write by r while another goroutine is about to
\* read or write the same map may be caught by the runtime, which then ends
\* the process ("fatal error: concurrent map writes")
BucketMapRace(r) ==
    /\ ~crashed
    /\ req[r].pc = "create"
    /\ \E q \in Reqs \ {r} :
          /\ req[q].map = req[r].map
          /\ req[q].mode = "bucket"
          /\ \/ req[q].pc = "create"
             \/ req[q].pc = "start" /\ ~IsSkipped(req[q].cfg, req[q].path)
    /\ crashed' = TRUE
    /\ req' = [q \in Reqs |->
          IF InFlight(q)
          THEN [req[q] EXCEPT !.pc = "done", !.outcome = "fatal"]
          ELSE req[q]]
    /\ UNCHANGED <<now, mw, ctor, config, roleConfig, defaultConfig, limiters,
                   heap, store, lib>>

\* TokenBucketRateLimit: if !limiter.Allow() { headers ... } else admit
BucketAllow(r) ==
    /\ ~crashed
    /\ req[r].pc = "allow"
    /\ LET res == reserveN(heap[req[r].lim], now, FALSE)
           rps == req[r].cfg.RequestsPerSecond
           key == <<KeyOf(req[r].cfg, req[r])>>
       IN  /\ heap' = [heap EXCEPT ![req[r].lim] = res.lim]
           /\ req' = [req EXCEPT ![r] =
                IF res.ok
                THEN [Finish(@, [outcome |-> "next", status |-> 0,
                                 hdr |-> "X-RateLimit-Limit" :> rps,
                                 body |-> NoBody])
                      EXCEPT !.at = now, !.key = key,
                             !.nth = NextNth(r, key)]
                ELSE [@ EXCEPT !.pc = "reserve", !.at = now, !.key = key,
                               !.nth = NextNth(r, key),
                               !.hdr = "X-RateLimit-Limit" :> rps
                                       @@ "X-RateLimit-Remaining" :> 0
                                       @@ "X-RateLimit-Reset" :>
                                            Unix(now + TicksPerSecond)]]
    /\ UNCHANGED <<now, mw, ctor, config, roleConfig, defaultConfig, limiters,
                   store, crashed, lib>>

\* TokenBucketRateLimit: retryAfter from limiter.Reserve(), 429, Abort
BucketReject(r) ==
    /\ ~crashed
    /\ req[r].pc = "reserve"
    /\ LET res == reserveN(heap[req[r].lim], now, TRUE)
       IN  /\ heap' = [heap EXCEPT ![req[r].lim] = res.lim]
           /\ req' = [req EXCEPT ![r] =
                Finish([@ EXCEPT !.wait = res.wait],
                       [outcome |-> "abort", status |-> 429,
                        hdr |-> req[r].hdr,
                        body |-> NewRateLimitedError(BucketRetryAfter(res))])]
    /\ UNCHANGED <<now, mw, ctor, config, roleConfig, defaultConfig, limiters,
                   store, crashed, lib>>

\* a counter key built from now.Unix() instead of window.Unix()
CountKey_Now(r) == WindowKey(KeyOf(r.cfg, r), r.tnow)

\* the counter key of request r: "ratelimit:" + KeyFunc(c) + ":" + window.Unix()
CountKey(r) ==
    WindowKey(KeyOf(r.cfg, r), Truncate(r.tnow, r.cfg.WindowSize))

\* Sliding/FixedWindowRateLimit: key, ctx, now := time.Now(), window, windowKey
WindowBegin(r) ==
    /\ ~crashed
    /\ req[r].pc = "start"
    /\ req[r].mode \in {"sliding", "fixed"}
    /\ ~IsSkipped(req[r].cfg, req[r].path)
    /\ req' = [req EXCEPT ![r] = [@ EXCEPT !.ctx = "Background", !.tnow = now,
                                            !.pc = "incr"]]
    /\ UNCHANGED <<now, mw, ctor, config, roleConfig, defaultConfig, limiters,
                   heap, store, crashed, lib>>

\* a handler that rejects when IncrementBy fails
AfterIncrement_FailClosed(r0, res, count) ==
    IF res # "ok"
    THEN Finish(r0, [outcome |-> "abort", status |-> 429, hdr |-> NoHeaders,
                     body |-> NewRateLimitedError(1)])
    ELSE IF count = 1 THEN [r0 EXCEPT !.count = count, !.pc = "expire"]
    ELSE Finish([r0 EXCEPT !.count = count],
                WindowDecide(r0.mode, r0.cfg, count, r0.tnow))

\* what the handler does with the answer of IncrementBy
AfterIncrement(r0, res, count) ==
    IF res # "ok" THEN Finish(r0, FailOpen)
    ELSE IF count = 1 THEN [r0 EXCEPT !.count = count, !.pc = "expire"]
    ELSE Finish([r0 EXCEPT !.count = count],
                WindowDecide(r0.mode, r0.cfg, count, r0.tnow))

\* the answers of a store call made with the context of r0: it answers
\* ("ok"), fails before reaching Redis ("err": unreachable, breaker open) or
\* fails after Redis applied it ("lost": the reply timed out).  A call made
\* with a context that is cancelled only fails; context.Background() is
\* never cancelled.
StoreAnswers(r0) ==
    IF r0.ctx = "Request" /\ r0.cancelled THEN {"err", "lost"}
    ELSE {"ok", "err", "lost"}

\* count, err := config.RedisClient.IncrementBy(ctx, windowKey, 1), the
\* store answering res
WindowIncrementWith(r, res) ==
    /\ ~crashed
    /\ req[r].pc = "incr"
    /\ res \in StoreAnswers(req[r])
    /\ LET k == CountKey(req[r])
           e == IncrEntry(store[req[r].db][k], now)
           window == Truncate(req[r].tnow, req[r].cfg.WindowSize)
           wend == window + req[r].cfg.WindowSize
           g == <<KeyOf(req[r].cfg, req[r]), window>>
       IN  /\ store' = IF res = "err" THEN store
                       ELSE [store EXCEPT ![req[r].db][k] = e]
           /\ req' = [req EXCEPT ![r] =
                 AfterIncrement(
                     [@ EXCEPT !.incrRes = res, !.nIncr = @ + 1,
                               !.key = g, !.nth = NextNth(r, g),
                               !.inWin = now < wend],
                     res, e.count)]
    /\ UNCHANGED <<now, mw, ctor, config, roleConfig, defaultConfig, limiters,
                   heap, crashed, lib>>

WindowIncrement(r) ==
    \E res \in {"ok", "err", "lost"} : WindowIncrementWith(r, res)

\* if count == 1 { config.RedisClient.Expire(ctx, windowKey, config.WindowSize) }
\* (its error is dropped), then the limit check
WindowExpireWith(r, res) ==
    /\ ~crashed
    /\ req[r].pc = "expire"
    /\ LET k == CountKey(req[r])
       IN  store' = IF res = "ok"
                    THEN [store EXCEPT ![req[r].db][k] =
                            ExpireEntry(@, now, req[r].cfg.WindowSize)]
                    ELSE store
    /\ req' = [req EXCEPT ![r] =
          Finish([@ EXCEPT !.expRes = res, !.nExp = @ + 1],
                 WindowDecide(req[r].mode, req[r].cfg, req[r].count,
                              req[r].tnow))]
    /\ UNCHANGED <<now, mw, ctor, config, roleConfig, defaultConfig, limiters,
                   heap, crashed, lib>>

WindowExpire(r) ==
    \E res \in {"ok", "err"} : WindowExpireWith(r, res)

\* a request is given to SlidingWindowRateLimit(config)
ArriveSliding ==
    \E r \in TwinReqs, path \in Paths, ip \in Addrs :
        /\ ~crashed
        /\ r % 2 = 1
        /\ req[r].pc = "idle"
        /\ \A q \in Reqs : q < r => req[q].pc = "done"
        /\ req' = [req EXCEPT ![r] =
              [@ EXCEPT !.path = path, !.ip = ip, !.pc = "start",
                        !.cfg = config, !.mode = "sliding", !.db = 1]]
        /\ UNCHANGED <<now, mw, ctor, config, roleConfig, defaultConfig,
                       limiters, heap, store, crashed, lib>>

\* the same request is given, at the same time, to FixedWindowRateLimit(config)
\* connected to the second store
ArriveFixed ==
    \E r \in TwinReqs :
        /\ ~crashed
        /\ r % 2 = 0
        /\ req[r].pc = "idle"
        /\ req[r - 1].pc = "done"
        /\ req' = [req EXCEPT ![r] =
              [@ EXCEPT !.path = req[r - 1].path, !.ip = req[r - 1].ip,
                        !.pc = "start", !.cfg = config, !.mode = "fixed",
                        !.db = 2]]
        /\ UNCHANGED <<now, mw, ctor, config, roleConfig, defaultConfig,
                       limiters, heap, store, crashed, lib>>

\* the two stores behave alike: the second answers the call of the fixed
\* window handler as the first answered that of the sliding window handler
TwinIncrement(r) ==
    IF r % 2 = 1 THEN WindowIncrement(r)
    ELSE WindowIncrementWith(r, req[r - 1].incrRes)

TwinExpire(r) ==
    IF r % 2 = 1 THEN WindowExpire(r)
    ELSE WindowExpireWith(r, req[r - 1].expRes)

\* the clock advances once both middlewares have handled the request
TickTwin ==
    /\ \A r \in TwinReqs : r % 2 = 1 => (req[r].pc = "done" <=> req[r + 1].pc = "done")
    /\ TickIdle

\* the client of request r goes away, or the deadline of r passes, while the
\* handler waits for IncrementBy: c.Request.Context() is cancelled
Cancel(r) ==
    /\ ~crashed
    /\ req[r].pc = "incr"
    /\ ~req[r].cancelled
    /\ req' = [req EXCEPT ![r] = [@ EXCEPT !.cancelled = TRUE]]
    /\ UNCHANGED <<now, mw, ctor, config, roleConfig, defaultConfig, limiters,
                   heap, store, crashed, lib>>

\* ------------------------------------------------------------ config.Config
\* the fields of Config that Validate reads
AppConfig(password, secret, port) ==
    [Server |-> [Port |-> port], Database |-> [Password |-> password],
     Auth |-> [JWTSecret |-> secret]]

\* the configurations given to Validate
AppConfigs ==
    {AppConfig(password, secret, port) :
        password \in {"", " ", "testpass"},
        secret \in {"", "x", "testsecret"},
        port \in {0 - 1, 0, 1, 80, 8080, 65535, 65536, 70000}}

\* a port check that refuses the highest port
Validate_Exclusive(c) ==
    IF c.Database.Password = "" THEN "database password is required"
    ELSE IF c.Auth.JWTSecret = "" THEN "JWT secret is required"
    ELSE IF c.Server.Port <= 0 \/ c.Server.Port >= 65535
    THEN "server port must be between 1 and 65535"
    ELSE "nil"

\* func (c *Config) Validate() error: the error message, "nil" for no error
Validate(c) ==
    IF c.Database.Password = "" THEN "database password is required"
    ELSE IF c.Auth.JWTSecret = "" THEN "JWT secret is required"
    ELSE IF c.Server.Port <= 0 \/ c.Server.Port > 65535
    THEN "server port must be between 1 and 65535"
    ELSE "nil"

\* no limiter is constructed; a configuration has been loaded
InitConfig ==
    /\ now = 0
    /\ mw = "none" /\ ctor = "ready" /\ config = ZeroConfig
    /\ roleConfig = <<>> /\ defaultConfig = ZeroConfig
    /\ limiters = [m \in 0..MaxReq |-> [k \in Keys |-> 0]]
    /\ heap = [i \in Reqs |-> NewLimiter(0, 0)]
    /\ store = [d \in Stores |-> [k \in StoreKeys |-> NoEntry]]
    /\ req = [r \in Reqs |-> IdleReq]
    /\ crashed = FALSE
    /\ \E c \in AppConfigs :
          lib = [pkg |-> "config", pc |-> "loaded", c |-> c, given |-> c,
                 err |-> "none"]

\* err := cfg.Validate()
CallValidate ==
    /\ lib.pkg = "config"
    /\ lib.pc = "loaded"
    /\ lib' = [lib EXCEPT !.pc = "validated", !.err = Validate(lib.c)]
    /\ UNCHANGED <<now, mw, ctor, config, roleConfig, defaultConfig, limiters,
                   heap, store, req, crashed>>

\* ------------------------------------------------- cache.Client (gobreaker)
\* gobreaker.Settings of cache.New: MaxRequests, Interval and Timeout (seconds)
BreakerMaxRequests == 3
BreakerInterval == 10
BreakerTimeout == 60

\* the cache operations of a run, and the times the clock is moved
MaxCalls == 4
MaxElapse == 2
MaxInFlight == 2
Calls == 1..MaxCalls

\* gobreaker.Counts, cleared
NoCounts ==
    [Requests |-> 0, TotalSuccesses |-> 0, TotalFailures |-> 0,
     ConsecutiveSuccesses |-> 0, ConsecutiveFailures |-> 0]

\* a trip rule that looks at the failures alone
ReadyToTrip_Failures(counts) == counts.TotalFailures >= 3

\* ReadyToTrip of cache.New: failureRatio := TotalFailures / Requests;
\* Requests >= 3 && failureRatio >= 0.6 (the quotient of two small integers
\* is at least the float 0.6 exactly when 5 * failures >= 3 * requests)
ReadyToTrip(counts) ==
    counts.Requests >= 3 /\ 5 * counts.TotalFailures >= 3 * counts.Requests

\* the zero time.Time
ZeroTime == 0 - 1

\* CircuitBreaker.toNewGeneration(now)
toNewGeneration(b, t) ==
    [b EXCEPT !.generation = @ + 1,
              !.counts = NoCounts,
              !.expiry = CASE b.state = "closed" -> t + BreakerInterval
                           [] b.state = "open" -> t + BreakerTimeout
                           [] OTHER -> ZeroTime]

\* CircuitBreaker.setState(state, now)
setState(b, s, t) ==
    IF b.state = s THEN b ELSE toNewGeneration([b EXCEPT !.state = s], t)

\* CircuitBreaker.currentState(now): the breaker after the check of expiry
currentState(b, t) ==
    CASE b.state = "closed" /\ b.expiry # ZeroTime /\ b.expiry < t ->
            toNewGeneration(b, t)
      [] b.state = "open" /\ b.expiry < t -> setState(b, "half-open", t)
      [] OTHER -> b

\* gobreaker.NewCircuitBreaker(settings) at time t
NewCircuitBreaker(t) ==
    toNewGeneration([state |-> "closed", generation |-> 0,
                     counts |-> NoCounts, expiry |-> ZeroTime], t)

\* CircuitBreaker.beforeRequest: the error, and the breaker afterwards
beforeRequest(b, t) ==
    LET c == currentState(b, t)
    IN  IF c.state = "open" THEN [err |-> "ErrOpenState", b |-> c]
        ELSE IF c.state = "half-open"
                /\ c.counts.Requests >= BreakerMaxRequests
        THEN [err |-> "ErrTooManyRequests", b |-> c]
        ELSE [err |-> "nil",
              b |-> [c EXCEPT !.counts.Requests = @ + 1]]

\* CircuitBreaker.onSuccess
onSuccess(b, t) ==
    LET c == [b EXCEPT !.counts.TotalSuccesses = @ + 1,
                       !.counts.ConsecutiveSuccesses = @ + 1,
                       !.counts.ConsecutiveFailures = 0]
    IN  IF b.state = "half-open"
        THEN IF c.counts.ConsecutiveSuccesses >= BreakerMaxRequests
             THEN setState(c, "closed", t) ELSE c
        ELSE IF b.state = "closed" THEN c
        ELSE b

\* CircuitBreaker.onFailure
onFailure(b, t) ==
    LET c == [b EXCEPT !.counts.TotalFailures = @ + 1,
                       !.counts.ConsecutiveFailures = @ + 1,
                       !.counts.ConsecutiveSuccesses = 0]
    IN  IF b.state = "closed"
        THEN IF ReadyToTrip(c.counts) THEN setState(c, "open", t) ELSE c
        ELSE IF b.state = "half-open" THEN setState(b, "open", t)
        ELSE b

\* CircuitBreaker.afterRequest(before, success): a result of an earlier
\* generation is dropped
afterRequest(b, before, success, t) ==
    LET c == currentState(b, t)
    IN  IF c.generation # before THEN c
        ELSE IF success THEN onSuccess(c, t)
        ELSE onFailure(c, t)

\* the operations of Client that the limiters, the health check and the
\* services call
CacheOps == {"Get", "IncrementBy"}

\* what the go-redis call inside Execute returns: a result, redis.Nil (GET of
\* an absent key) or another error (no connection, timeout)
RedisAnswers(op, up) ==
    {"ok"} \cup (IF op = "Get" THEN {"redis.Nil"} ELSE {})
           \cup (IF up THEN {} ELSE {"error"})

\* the error the operation of Client returns to its caller
ClientError(op, breakerErr, answer) ==
    IF breakerErr # "nil" THEN "failed: " \o breakerErr
    ELSE IF answer = "ok" THEN "nil"
    ELSE IF op = "Get" /\ answer = "redis.Nil" THEN "ErrCacheMiss"
    ELSE "failed"

\* a call of an operation: its position, what Execute did with it (the state
\* of the breaker before and after beforeRequest, its generation, whether
\* the go-redis call was made, its answer, the error returned) and, for the
\* properties, what afterRequest found: the state, whether the outcome was
\* counted, the counts after it was, whether the breaker left closed
NoCall ==
    [pc |-> "idle", op |-> "", prior |-> "", gate |-> "", before |-> 0,
     reached |-> FALSE, answer |-> "", err |-> "",
     found |-> "", counted |-> FALSE, saw |-> NoCounts, left |-> FALSE]

\* the limiter middlewares are not constructed
NoLimiter ==
    /\ now = 0
    /\ mw = "none" /\ ctor = "ready" /\ config = ZeroConfig
    /\ roleConfig = <<>> /\ defaultConfig = ZeroConfig
    /\ limiters = [m \in 0..MaxReq |-> [k \in Keys |-> 0]]
    /\ heap = [i \in Reqs |-> NewLimiter(0, 0)]
    /\ store = [d \in Stores |-> [k \in StoreKeys |-> NoEntry]]
    /\ req = [r \in Reqs |-> IdleReq]
    /\ crashed = FALSE

\* cache.New(cfg) has returned a client; Redis stays reachable (up) or not
InitCache ==
    /\ NoLimiter
    /\ \E up \in BOOLEAN :
          lib = [pkg |-> "cache", up |-> up, t |-> 0, elapsed |-> 0,
                 breaker |-> NewCircuitBreaker(0),
                 calls |-> [i \in Calls |-> NoCall]]

\* time passes
Elapse ==
    /\ lib.pkg = "cache"
    /\ lib.elapsed < MaxElapse
    /\ \E d \in {1, BreakerInterval, BreakerTimeout} :
          lib' = [lib EXCEPT !.t = @ + d, !.elapsed = @ + 1]
    /\ UNCHANGED <<now, mw, ctor, config, roleConfig, defaultConfig, limiters,
                   heap, store, req, crashed>>

\* an operation of Client is called: c.breaker.Execute(...) up to the call of
\* its function
CallBegin(i, op) ==
    /\ lib.pkg = "cache"
    /\ lib.calls[i].pc = "idle"
    /\ \A j \in Calls : j < i => lib.calls[j].pc # "idle"
    /\ Cardinality({j \in Calls : lib.calls[j].pc = "running"}) < MaxInFlight
    /\ LET res == beforeRequest(lib.breaker, lib.t)
       IN  lib' = [lib EXCEPT
             !.breaker = res.b,
             !.calls[i] =
                IF res.err # "nil"
                THEN [@ EXCEPT !.pc = "done", !.op = op,
                               !.prior = lib.breaker.state,
                               !.gate = res.b.state,
                               !.err = ClientError(op, res.err, "")]
                ELSE [@ EXCEPT !.pc = "running", !.op = op,
                               !.prior = lib.breaker.state,
                               !.gate = res.b.state,
                               !.before = res.b.generation]]
    /\ UNCHANGED <<now, mw, ctor, config, roleConfig, defaultConfig, limiters,
                   heap, store, req, crashed>>

\* the go-redis call returns, Execute records the outcome (success is
\* err == nil) and the operation returns
CallEnd(i, answer) ==
    /\ lib.pkg = "cache"
    /\ lib.calls[i].pc = "running"
    /\ answer \in RedisAnswers(lib.calls[i].op, lib.up)
    /\ LET b == afterRequest(lib.breaker, lib.calls[i].before,
                             answer = "ok", lib.t)
           cur == currentState(lib.breaker, lib.t)
       IN  lib' = [lib EXCEPT
             !.breaker = b,
             !.calls[i] =
                [@ EXCEPT !.pc = "done", !.reached = TRUE,
                          !.answer = answer,
                          !.err = ClientError(lib.calls[i].op, "nil", answer),
                          !.found = cur.state,
                          !.counted = cur.generation = lib.calls[i].before,
                          !.saw = IF b.generation = cur.generation
                                  THEN b.counts
                                  ELSE [cur.counts EXCEPT
                                          !.TotalFailures = @ + 1],
                          !.left = cur.state = "closed" /\ b.state # "closed"]]
    /\ UNCHANGED <<now, mw, ctor, config, roleConfig, defaultConfig, limiters,
                   heap, store, req, crashed>>

\* concurrent operations on one Client
NextCache ==
    \/ Elapse
    \/ \E i \in Calls, op \in CacheOps : CallBegin(i, op)
    \/ \E i \in Calls, answer \in {"ok", "redis.Nil", "error"} : CallEnd(i, answer)

SpecCache == InitCache /\ [][NextCache]_vars

\* ------------------------------------------------------------ health.Checker
\* the names under which checks are registered
MaxChecks == 3
CheckNames == 1..MaxChecks

\* the Status constants, and the zero value that a check may leave
StatusUp == "up"
StatusDown == "down"
StatusWarning == "warning"
Statuses == {StatusUp, StatusDown, StatusWarning, ""}

\* the orders in which a range over a map with keys S may visit them
Orders(S) ==
    {o \in [1..Cardinality(S) -> S] : \A i, j \in DOMAIN o : o[i] = o[j] => i = j}

\* CheckHealth, "Determine overall status": the loop over results, visiting
\* them in the given order, from overallStatus
RECURSIVE DetermineOverall(_, _, _)
DetermineOverall(results, order, overallStatus) ==
    IF order = <<>> THEN overallStatus
    ELSE IF results[Head(order)] = StatusDown THEN StatusDown
    ELSE IF results[Head(order)] = StatusWarning /\ overallStatus = StatusUp
    THEN DetermineOverall(results, Tail(order), StatusWarning)
    ELSE DetermineOverall(results, Tail(order), overallStatus)

\* the status code of a handler that treats a warning as down
StatusCode_Strict(handler, status) ==
    IF status # StatusUp THEN 503 ELSE 200

\* Handler and ReadinessHandler: the status code for a response
StatusCode(handler, status) ==
    IF handler = "Handler"
    THEN (IF status = StatusDown THEN 503 ELSE 200)
    ELSE (IF status # StatusUp THEN 503 ELSE 200)

NoResults == [n \in {} |-> ""]

\* NewChecker(), with the checks registered before the service starts
InitHealth ==
    /\ NoLimiter
    /\ \E cs \in SUBSET CheckNames :
          lib = [pkg |-> "health", checks |-> cs, pc |-> "idle",
                 handler |-> "", snapshot |-> {}, results |-> NoResults,
                 status |-> "", code |-> 0]

\* hc.AddCheck(name, check), at any time
AddCheck(name) ==
    /\ lib.pkg = "health"
    /\ name \notin lib.checks
    /\ lib' = [lib EXCEPT !.checks = @ \cup {name}]
    /\ UNCHANGED <<now, mw, ctor, config, roleConfig, defaultConfig, limiters,
                   heap, store, req, crashed>>

\* hc.RemoveCheck(name), at any time
RemoveCheck(name) ==
    /\ lib.pkg = "health"
    /\ name \in lib.checks
    /\ lib' = [lib EXCEPT !.checks = @ \ {name}]
    /\ UNCHANGED <<now, mw, ctor, config, roleConfig, defaultConfig, limiters,
                   heap, store, req, crashed>>

\* a handler calls CheckHealth, which copies hc.checks under the read lock
\* and starts one goroutine for each check of the copy
CheckHealthBegin(handler) ==
    /\ lib.pkg = "health"
    /\ lib.pc = "idle"
    /\ lib' = [lib EXCEPT !.pc = "running", !.handler = handler,
                          !.snapshot = lib.checks]
    /\ UNCHANGED <<now, mw, ctor, config, roleConfig, defaultConfig, limiters,
                   heap, store, req, crashed>>

\* the goroutine of check name: result := check(checkCtx);
\* results[name] = result under mu
CheckRun(name, status) ==
    /\ lib.pkg = "health"
    /\ lib.pc = "running"
    /\ name \in lib.snapshot \ DOMAIN lib.results
    /\ lib' = [lib EXCEPT !.results = @ @@ (name :> status)]
    /\ UNCHANGED <<now, mw, ctor, config, roleConfig, defaultConfig, limiters,
                   heap, store, req, crashed>>

\* wg.Wait() returns, the overall status is determined, the handler answers
CheckHealthEnd ==
    /\ lib.pkg = "health"
    /\ lib.pc = "running"
    /\ DOMAIN lib.results = lib.snapshot
    /\ \E order \in Orders(DOMAIN lib.results) :
          LET overallStatus == DetermineOverall(lib.results, order, StatusUp)
          IN  lib' = [lib EXCEPT !.pc = "done", !.status = overallStatus,
                                 !.code = StatusCode(lib.handler, overallStatus)]
    /\ UNCHANGED <<now, mw, ctor, config, roleConfig, defaultConfig, limiters,
                   heap, store, req, crashed>>

NextHealth ==
    \/ \E name \in CheckNames : AddCheck(name)
    \/ \E name \in CheckNames : RemoveCheck(name)
    \/ \E handler \in {"Handler", "ReadinessHandler"} : CheckHealthBegin(handler)
    \/ \E name \in CheckNames, status \in Statuses : CheckRun(name, status)
    \/ CheckHealthEnd

SpecHealth == InitHealth /\ [][NextHealth]_vars

\* ------------------------------------------------------------ middleware.JWT
\* the requests given to the JWT middleware in a run
MaxAuthReq == 1

\* a *jwt.NumericDate: nil or a time
NoDate == [set |-> FALSE, t |-> 0]
NumericDate(t) == [set |-> TRUE, t |-> t]

\* AuthConfig
AuthConfigs ==
    {[JWTSecret |-> "testsecret", Issuer |-> iss, SkipPaths |-> {"/health"},
      RequiredRoles |-> roles, RequiredScopes |-> scopes] :
        iss \in {"", "pyairtable"},
        roles \in {<<>>, <<"admin">>, <<"admin", "user">>},
        scopes \in {<<>>, <<"read">>}}

\* the tokens a client may send: the signing method of the header, whether
\* the signature verifies with the key given for it, and the claims
Tokens ==
    {[alg |-> alg, signedWith |-> key,
      claims |-> [UserID |-> "u1", TenantID |-> "t1", Roles |-> roles,
                  Scopes |-> scopes, Issuer |-> iss, ExpiresAt |-> exp]] :
        alg \in {"HS256", "RS256"},
        key \in {"testsecret", "other"},
        roles \in {<<>>, <<"user">>, <<"guest", "admin">>},
        scopes \in {<<"read">>, <<"write">>},
        iss \in {"pyairtable", "other"},
        exp \in {NoDate, NumericDate(0 - 1), NumericDate(0), NumericDate(1)}}

\* the Authorization headers: none, another scheme, the scheme without a
\* token, a token that is no JWT, a token
NoToken == [alg |-> "", signedWith |-> "", claims |-> <<>>]
AuthHeaders ==
    {[scheme |-> s, fields |-> 2, jwt |-> FALSE, token |-> NoToken] :
        s \in {"Basic", "bearer", "Bearer"}}
    \cup {[scheme |-> "", fields |-> 0, jwt |-> FALSE, token |-> NoToken],
          [scheme |-> "Bearer", fields |-> 1, jwt |-> FALSE, token |-> NoToken]}
    \cup {[scheme |-> "Bearer", fields |-> 2, jwt |-> TRUE, token |-> tok] :
             tok \in Tokens}

\* jwt.ParseWithClaims(tokenString, &JWTClaims{}, keyFunc): the error, "nil"
\* for a token that is well-formed, signed with an HMAC method and the key of
\* keyFunc, and whose registered claims are valid at time t (exp after t)
ParseWithClaims(h, secret, t) ==
    IF ~h.jwt THEN "malformed"
    ELSE IF h.token.alg # "HS256" THEN "TOKEN_INVALID"
    ELSE IF h.token.signedWith # secret THEN "signature is invalid"
    ELSE IF h.token.claims.ExpiresAt.set /\ ~(t < h.token.claims.ExpiresAt.t)
    THEN "token is expired"
    ELSE "nil"

\* a role check that looks at the first required role only
hasAnyRole_First(userRoles, requiredRoles) ==
    \E j \in DOMAIN userRoles : userRoles[j] = requiredRoles[1]

\* hasAnyRole(userRoles, requiredRoles)
hasAnyRole(userRoles, requiredRoles) ==
    \E i \in DOMAIN requiredRoles :
        \E j \in DOMAIN userRoles : userRoles[j] = requiredRoles[i]

\* hasAnyScope(userScopes, requiredScopes)
hasAnyScope(userScopes, requiredScopes) ==
    \E i \in DOMAIN requiredScopes :
        \E j \in DOMAIN userScopes : userScopes[j] = requiredScopes[i]

\* what the middleware did with a request: c.Next() or c.Abort() with a
\* status, and the values of the request context afterwards
Answer(next, status, claims, values) ==
    [next |-> next, status |-> status, claims |-> claims, values |-> values]

Unauthorized == Answer(FALSE, 401, <<>>, NoValues)
Forbidden == Answer(FALSE, 403, <<>>, NoValues)

\* the handler of JWT(config) on a request with this path and Authorization
\* header, at time t
JWT(cfg, path, h, t) ==
    IF \E p \in cfg.SkipPaths : path = p THEN Answer(TRUE, 0, <<>>, NoValues)
    ELSE IF h.fields = 0 THEN Unauthorized
    ELSE IF h.fields # 2 \/ h.scheme # "Bearer" THEN Unauthorized
    ELSE IF ParseWithClaims(h, cfg.JWTSecret, t) # "nil" THEN Unauthorized
    ELSE LET claims == h.token.claims
         IN  IF claims.ExpiresAt.set /\ claims.ExpiresAt.t < t
             THEN Unauthorized
             ELSE IF cfg.Issuer # "" /\ claims.Issuer # cfg.Issuer
             THEN Unauthorized
             ELSE IF Len(cfg.RequiredRoles) > 0
                     /\ ~hasAnyRole(claims.Roles, cfg.RequiredRoles)
             THEN Forbidden
             ELSE IF Len(cfg.RequiredScopes) > 0
                     /\ ~hasAnyScope(claims.Scopes, cfg.RequiredScopes)
             THEN Forbidden
             ELSE Answer(TRUE, 0, claims,
                         [NoValues EXCEPT
                            ![StringKey("user_id")] = StringValue(claims.UserID),
                            ![StringKey("tenant_id")] =
                                StringValue(claims.TenantID)])

\* JWT(config) has been constructed
InitAuth ==
    /\ NoLimiter
    /\ \E cfg \in AuthConfigs :
          lib = [pkg |-> "auth", config |-> cfg, handled |-> 0,
                 path |-> "", header |-> CHOOSE h \in AuthHeaders : h.fields = 0,
                 answer |-> Answer(FALSE, 0, <<>>, NoValues)]

\* gin hands a request to the handler of JWT(config)
HandleJWT ==
    /\ lib.pkg = "auth"
    /\ lib.handled < MaxAuthReq
    /\ \E path \in Paths, h \in AuthHeaders :
          lib' = [lib EXCEPT !.handled = @ + 1, !.path = path, !.header = h,
                             !.answer = JWT(lib.config, path, h, now)]
    /\ UNCHANGED <<now, mw, ctor, config, roleConfig, defaultConfig, limiters,
                   heap, store, req, crashed>>

NextAuth == HandleJWT

SpecAuth == InitAuth /\ [][NextAuth]_vars

\* ------------------------------------------------- middleware.RequestLogging
\* the requests given to RequestLogging in a run
MaxLogReq == 2

\* time.Now().UnixNano(), an int64, written in 16-bit words: the bits above
\* bit 31 (hi), bits 16..31 (mid), bits 0..15 (low)
UnixNanos ==
    {[hi |-> h, mid |-> m, low |-> l] :
        h \in {0, 1},
        m \in {0, 16, 17, 32768, 65535},
        l \in {0, 65, 55296, 65533, 65535}}

\* rune(n): the conversion of an int64 to int32 keeps the low 32 bits, as a
\* two's complement number
RuneOf(n) ==
    IF n.mid >= 32768 THEN (n.mid - 65536) * 65536 + n.low
    ELSE n.mid * 65536 + n.low

\* utf8.MaxRune, the surrogate range and utf8.RuneError
MaxRune == 1114111
SurrogateMin == 55296
SurrogateMax == 57343
RuneError == 65533

\* string(r) for a rune r: the UTF-8 text of the code point r, of U+FFFD when r
\* is no valid code point (the text is given by its code point)
StringOfRune(r) ==
    IF r < 0 \/ r > MaxRune \/ (r >= SurrogateMin /\ r <= SurrogateMax)
    THEN RuneError ELSE r

\* generateRequestID at time n: "req_" + string(rune(time.Now().UnixNano()))
generateRequestID(n) == <<"req_", StringOfRune(RuneOf(n))>>

\* the X-Request-ID headers of incoming requests: none, or an ID of the client
NoID == <<>>
IncomingIDs == {NoID, <<"client", 1>>, <<"client", 2>>}

\* RequestLogging(log) has been constructed; no request yet
InitLogging ==
    /\ NoLimiter
    /\ lib = [pkg |-> "logging", handled |-> <<>>]

\* the handler of RequestLogging on a request that arrives at time n with
\* this X-Request-ID header, up to c.Next()
HandleLogging ==
    /\ lib.pkg = "logging"
    /\ Len(lib.handled) < MaxLogReq
    /\ \E n \in UnixNanos, incoming \in IncomingIDs :
          LET requestID == IF incoming = NoID THEN generateRequestID(n)
                           ELSE incoming
          IN  lib' = [lib EXCEPT !.handled = Append(@,
                        [at |-> n, incoming |-> incoming,
                         header |-> IF incoming = NoID THEN requestID ELSE NoID,
                         ctx |-> requestID])]
    /\ UNCHANGED <<now, mw, ctor, config, roleConfig, defaultConfig, limiters,
                   heap, store, req, crashed>>

NextLogging == HandleLogging

SpecLogging == InitLogging /\ [][NextLogging]_vars

\* -------------------------------------------------------------- models.Tenant
\* the sizes of t.Users and t.Workspaces
MaxTenantUsers == 101
MaxTenantWorkspaces == 51

\* the PlanType constants, and a plan type that is none of them
PlanTypes == {"free", "basic", "professional", "enterprise", ""}

\* Tenant.GetPlanLimits: MaxUsers and MaxWorkspaces of the plan
GetPlanLimits(t) ==
    CASE t.PlanType = "free" -> [MaxUsers |-> 5, MaxWorkspaces |-> 3]
      [] t.PlanType = "basic" -> [MaxUsers |-> 25, MaxWorkspaces |-> 10]
      [] t.PlanType = "professional" -> [MaxUsers |-> 100, MaxWorkspaces |-> 50]
      [] t.PlanType = "enterprise" ->
            [MaxUsers |-> 0 - 1, MaxWorkspaces |-> 0 - 1]
      [] OTHER -> [MaxUsers |-> 0, MaxWorkspaces |-> 0]

\* Tenant.GetUserCount, Tenant.GetWorkspaceCount: len(t.Users), len(t.Workspaces)
GetUserCount(t) == t.Users
GetWorkspaceCount(t) == t.Workspaces

\* Tenant.CanCreateWorkspace
CanCreateWorkspace(t) ==
    GetWorkspaceCount(t) < GetPlanLimits(t).MaxWorkspaces

\* Tenant.CanInviteUser
CanInviteUser(t) ==
    GetUserCount(t) < GetPlanLimits(t).MaxUsers

\* a tenant loaded with its users and workspaces
InitTenant ==
    /\ NoLimiter
    /\ \E p \in PlanTypes, u \in 0..MaxTenantUsers, w \in 0..MaxTenantWorkspaces :
          lib = [pkg |-> "tenant",
                 t |-> [PlanType |-> p, Users |-> u, Workspaces |-> w],
                 asked |-> {}, canCreate |-> FALSE, canInvite |-> FALSE]

\* ok := t.CanCreateWorkspace()
CallCanCreateWorkspace ==
    /\ lib.pkg = "tenant"
    /\ "workspace" \notin lib.asked
    /\ lib' = [lib EXCEPT !.asked = @ \cup {"workspace"},
                          !.canCreate = CanCreateWorkspace(lib.t)]
    /\ UNCHANGED <<now, mw, ctor, config, roleConfig, defaultConfig, limiters,
                   heap, store, req, crashed>>

\* ok := t.CanInviteUser()
CallCanInviteUser ==
    /\ lib.pkg = "tenant"
    /\ "user" \notin lib.asked
    /\ lib' = [lib EXCEPT !.asked = @ \cup {"user"},
                          !.canInvite = CanInviteUser(lib.t)]
    /\ UNCHANGED <<now, mw, ctor, config, roleConfig, defaultConfig, limiters,
                   heap, store, req, crashed>>

NextTenant ==
    \/ CallCanCreateWorkspace
    \/ CallCanInviteUser

SpecTenant == InitTenant /\ [][NextTenant]_vars

\* --------------------------------------------------------- models.TenantQuota
\* the calls made on a quota in a run, and the largest Limit
MaxQuotaOps == 3
MaxLimit == 3

\* Used, Limit and the amounts are int64; the sums are computed here on words
\* of QuotaBits bits, two's complement, wrapping around as those of int64 do
QuotaBits == 4
MinWord == 0 - 2 ^ (QuotaBits - 1)
MaxWord == 2 ^ (QuotaBits - 1) - 1
Wrap(x) == ((x - MinWord) % (2 ^ QuotaBits)) + MinWord

\* the amounts given to Allocate and Deallocate
Amounts == MinWord..MaxWord

\* TenantQuota.CanAllocate(amount)
CanAllocate(q, amount) == Wrap(q.Used + amount) <= q.Limit

\* TenantQuota.Allocate(amount): the result and the quota afterwards
Allocate(q, amount) ==
    IF ~CanAllocate(q, amount) THEN [ok |-> FALSE, q |-> q]
    ELSE [ok |-> TRUE, q |-> [q EXCEPT !.Used = Wrap(q.Used + amount)]]

\* TenantQuota.Deallocate(amount): the quota afterwards
Deallocate(q, amount) ==
    LET used == Wrap(q.Used - amount)
    IN  [q EXCEPT !.Used = IF used < 0 THEN 0 ELSE used]

\* a quota with 0 <= Used <= Limit
InitQuota ==
    /\ NoLimiter
    /\ \E limit \in 0..MaxLimit : \E used \in 0..limit :
          lib = [pkg |-> "quota", q |-> [Used |-> used, Limit |-> limit],
                 ops |-> 0, op |-> "", amount |-> 0, ok |-> TRUE,
                 before |-> [Used |-> used, Limit |-> limit]]

\* ok := q.Allocate(amount)
CallAllocate ==
    /\ lib.pkg = "quota"
    /\ lib.ops < MaxQuotaOps
    /\ \E amount \in Amounts :
          LET res == Allocate(lib.q, amount)
          IN  lib' = [lib EXCEPT !.q = res.q, !.ops = @ + 1, !.op = "Allocate",
                                 !.amount = amount, !.ok = res.ok,
                                 !.before = lib.q]
    /\ UNCHANGED <<now, mw, ctor, config, roleConfig, defaultConfig, limiters,
                   heap, store, req, crashed>>

\* q.Deallocate(amount)
CallDeallocate ==
    /\ lib.pkg = "quota"
    /\ lib.ops < MaxQuotaOps
    /\ \E amount \in Amounts :
          lib' = [lib EXCEPT !.q = Deallocate(lib.q, amount), !.ops = @ + 1,
                             !.op = "Deallocate", !.amount = amount,
                             !.ok = TRUE, !.before = lib.q]
    /\ UNCHANGED <<now, mw, ctor, config, roleConfig, defaultConfig, limiters,
                   heap, store, req, crashed>>

NextQuota ==
    \/ CallAllocate
    \/ CallDeallocate

SpecQuota == InitQuota /\ [][NextQuota]_vars

\* ----------------------------------------------------------- specifications
\* one request at a time through a token bucket, sliding window or fixed
\* window middleware
Next ==
    \/ TickIdle
    \/ Arrive
    \/ \E r \in Reqs : SkipPath(r)
    \/ \E r \in Reqs : BucketLookup(r)
    \/ \E r \in Reqs : BucketCreate(r)
    \/ \E r \in Reqs : BucketAllow(r)
    \/ \E r \in Reqs : BucketReject(r)
    \/ \E r \in Reqs : WindowBegin(r)
    \/ \E r \in Reqs : WindowIncrement(r)
    \/ \E r \in Reqs : WindowExpire(r)

Spec == Init /\ [][Next]_vars

\* one request at a time through PerUserRateLimit (whose token buckets are
\* never empty, so that the rejecting branch of the bucket is never taken)
NextUser ==
    \/ TickIdle
    \/ Arrive
    \/ \E r \in Reqs : PerUserSelect(r)
    \/ \E r \in Reqs : SkipPath(r)
    \/ \E r \in Reqs : BucketLookup(r)
    \/ \E r \in Reqs : BucketCreate(r)
    \/ \E r \in Reqs : BucketAllow(r)
    \/ \E r \in Reqs : WindowBegin(r)
    \/ \E r \in Reqs : WindowIncrement(r)
    \/ \E r \in Reqs : WindowExpire(r)

SpecUser == InitUser /\ [][NextUser]_vars

\* concurrent requests, one goroutine each, through a token bucket, sliding
\* window or fixed window middleware
NextConc ==
    \/ Tick
    \/ ArriveConc
    \/ \E r \in Reqs : BucketLookup(r)
    \/ \E r \in Reqs : BucketCreate(r)
    \/ \E r \in Reqs : BucketMapRace(r)
    \/ \E r \in Reqs : BucketAllow(r)
    \/ \E r \in Reqs : BucketReject(r)
    \/ \E r \in Reqs : WindowBegin(r)
    \/ \E r \in Reqs : WindowIncrement(r)
    \/ \E r \in Reqs : WindowExpire(r)

SpecConc == InitConc /\ [][NextConc]_vars

\* one request at a time through a window middleware, with requests that are
\* cancelled while the store call is pending
InitCancel == Init /\ mw \in {"sliding", "fixed"}

NextCancel ==
    \/ Arrive
    \/ \E r \in Reqs : Cancel(r)
    \/ \E r \in Reqs : SkipPath(r)
    \/ \E r \in Reqs : WindowBegin(r)
    \/ \E r \in Reqs : WindowIncrement(r)
    \/ \E r \in Reqs : WindowExpire(r)

SpecCancel == InitCancel /\ [][NextCancel]_vars

\* requests with context values through the three middlewares (fewer
\* requests than the burst: no rejection)
NextKey ==
    \/ ArriveKey
    \/ \E r \in Reqs : BucketLookup(r)
    \/ \E r \in Reqs : BucketCreate(r)
    \/ \E r \in Reqs : BucketAllow(r)
    \/ \E r \in Reqs : WindowBegin(r)
    \/ \E r \in Reqs : WindowIncrement(r)
    \/ \E r \in Reqs : WindowExpire(r)

SpecKey == InitKey /\ [][NextKey]_vars

\* every request through both window middlewares, on stores that behave alike
NextTwin ==
    \/ TickTwin
    \/ ArriveSliding
    \/ ArriveFixed
    \/ \E r \in TwinReqs : SkipPath(r)
    \/ \E r \in TwinReqs : WindowBegin(r)
    \/ \E r \in TwinReqs : TwinIncrement(r)
    \/ \E r \in TwinReqs : TwinExpire(r)

SpecTwin == InitTwin /\ [][NextTwin]_vars

\* Config.Validate on a loaded configuration
NextConfig == CallValidate

SpecConfig == InitConfig /\ [][NextConfig]_vars

\* --------------------------------------------------------------- properties
Done(r) == req[r].pc = "done"
Admitted(r) == Done(r) /\ req[r].outcome = "next"
Rejected(r) ==
    /\ Done(r) /\ req[r].outcome = "abort" /\ req[r].status = 429
    /\ req[r].body.code = "RATE_LIMITED"
    /\ req[r].body.message = "Rate limit exceeded"

\* the request with rank i in group g of limiter map m
HasNth(m, g, i) ==
    \E r \in Reqs : Done(r) /\ req[r].map = m /\ req[r].key = g /\ req[r].nth = i
NthReq(m, g, i) ==
    CHOOSE r \in Reqs : req[r].map = m /\ req[r].key = g /\ req[r].nth = i

\* every IncrementBy made so far for the window of request r, up to the one
\* of r, was answered
AllAnswered(r) ==
    \A q \in Reqs :
        (req[q].key = req[r].key /\ req[q].nth > 0 /\ req[q].nth <= req[r].nth)
        => req[q].incrRes = "ok"

AdmittedIn(ip, w) ==
    {r \in Reqs :
        /\ Admitted(r) /\ req[r].mode = "fixed" /\ req[r].incrRes = "ok"
        /\ req[r].ip = ip /\ Truncate(req[r].tnow, req[r].cfg.WindowSize) = w}

OneIncrementEach ==
    \A r \in Reqs :
        (Done(r) /\ req[r].mode = "fixed" /\ req[r].outcome # "fatal")
        => req[r].nIncr = 1

C3_TokenBucketRecovery ==
    mw = "bucket" =>
    \A ip \in Keys :
        LET g == <<ip>>
            B == config.BurstSize
            R == config.RequestsPerSecond
            at(i) == req[NthReq(0, g, i)].at
        IN  (\A i \in 1..(B + 1) : HasNth(0, g, i) /\ at(i) = at(1))
            => /\ \A i \in 1..B : Admitted(NthReq(0, g, i))
               /\ Rejected(NthReq(0, g, B + 1))
               /\ (/\ HasNth(0, g, B + 2)
                   /\ TicksPerSecond % R = 0
                   /\ at(B + 2) = at(1) + (TicksPerSecond \div R))
                  => /\ Admitted(NthReq(0, g, B + 2))
                     /\ (HasNth(0, g, B + 3) /\ at(B + 3) = at(B + 2))
                        => Rejected(NthReq(0, g, B + 3))

\* C4: concurrent requests of one key share one bucket whose lookup-or-create,
\* refill and consume are atomic: no more than burstSize of them are admitted
\* at one instant.
C4_BucketAtomicPerKey ==
    mw = "bucket" =>
    \A ip \in Keys, t \in 0..MaxTime :
        Cardinality({r \in Reqs : /\ Admitted(r)
                                  /\ req[r].key = <<ip>>
                                  /\ req[r].at = t}) <= config.BurstSize

\* C5: when IncrementBy returns an error the window limiters admit the
\* request, set no header, do not call IncrementBy again and do not call
\* Expire.
C5_FailOpen ==
    \A r \in Reqs :
        (Done(r) /\ req[r].incrRes \in {"err", "lost"})
        => /\ req[r].outcome = "next"
           /\ req[r].hdr = NoHeaders
           /\ req[r].nIncr = 1
           /\ req[r].nExp = 0

C5_Witness ==
    \E r, q \in Reqs :
        /\ Done(r) /\ req[r].incrRes = "err" /\ req[r].mode = "sliding"
        /\ Rejected(q) /\ q < r /\ req[q].key = req[r].key

\* C6: a step of a request whose path is an entry of skipPaths hands it to the
\* downstream handler without a header and changes no counter of the store
\* and no bucket: this is so in the token bucket and both window middlewares.
C6_PathExemption ==
    [][\A r \in Reqs :
          (/\ req[r].pc = "start"
           /\ req[r].path \in req[r].cfg.SkipPaths
           /\ req'[r] # req[r])
          => /\ req'[r].pc = "done"
             /\ req'[r].outcome = "next"
             /\ req'[r].hdr = NoHeaders
             /\ req'[r].nIncr = 0 /\ req'[r].nExp = 0 /\ req'[r].lim = 0
             /\ UNCHANGED <<store, limiters, heap>>]_vars

C6_Witness ==
    \E r, q \in Reqs :
        /\ Admitted(r) /\ req[r].path = "/health" /\ req[r].hdr = NoHeaders
        /\ Rejected(q) /\ q < r /\ req[q].ip = req[r].ip

\* C7: every request a limiter middleware has handled was either passed to the
\* downstream handler or aborted with 429 and the RATE_LIMITED body; none
\* ended in an error or a panic.
C7_BinaryOutcome ==
    \A r \in Reqs :
        Done(r) =>
            \/ req[r].outcome = "next" /\ req[r].status = 0
                                       /\ req[r].body = NoBody
            \/ Rejected(r) /\ req[r].body.retry_after >= 1

\* the policies of a middleware that ask for the store without a client
Misconfigured ==
    {c \in {roleConfig[role] : role \in DOMAIN roleConfig} \cup {defaultConfig} :
        c.UseRedis /\ ~c.RedisClient}

\* C8: a policy that selects the store without a client makes the constructor
\* fail, for the window middlewares and for PerUserRateLimit, and no request
\* fails for it.
C8_MisconfigurationFatalAtConstruction ==
    /\ (mw \in {"sliding", "fixed"} /\ ~config.RedisClient) => ctor = "panic"
    /\ (mw = "peruser" /\ Misconfigured # {})
       => \A r \in Reqs : req[r].outcome # "panic"

\* the policy PerUserRateLimit is to apply: that of the first role of the
\* caller's list with a configured policy, the default when there is none
ExpectedPolicy(claims) ==
    LET role == IF claims.present
                THEN FirstConfigured(claims.Roles, roleConfig) ELSE ""
    IN  IF role = "" THEN defaultConfig ELSE roleConfig[role]

\* C9: PerUserRateLimit applies the policy of the first role with a configured
\* policy, whatever its field values, and the default policy only when there
\* are no claims or no role has a policy.
C9_PolicySelection ==
    \A r \in Reqs :
        (mw = "peruser" /\ req[r].pc \notin {"idle", "select"})
        => WithDefaults(req[r].cfg) = WithDefaults(ExpectedPolicy(req[r].claims))

\* C10: under PerUserRateLimit a policy with UseRedis = false is enforced as a
\* token bucket across the requests of a caller (of B+1 requests of one key at
\* one instant the first B are admitted, the (B+1)th rejected), and a policy
\* with UseRedis = true as a fixed window.
C10_PerUserEnforcement ==
    \A r \in Reqs :
        (mw = "peruser" /\ Done(r) /\ req[r].outcome # "panic"
         /\ req[r].path \notin req[r].cfg.SkipPaths)
        => /\ req[r].mode = (IF req[r].cfg.UseRedis THEN "fixed" ELSE "bucket")
           /\ req[r].mode = "bucket" =>
                LET same == {q \in Reqs :
                               /\ q < r /\ Done(q) /\ req[q].mode = "bucket"
                               /\ req[q].ip = req[r].ip
                               /\ req[q].cfg = req[r].cfg
                               /\ req[q].path \notin req[q].cfg.SkipPaths}
                    B == req[r].cfg.BurstSize
                IN  (\A q \in same : req[q].at = req[r].at)
                    => /\ Cardinality(same) < B => Admitted(r)
                       /\ Cardinality(same) = B => Rejected(r)

\* the window middlewares ("distributed mode")
IsWindow(r) == req[r].mode \in {"sliding", "fixed"}

Abs(x) == IF x < 0 THEN 0 - x ELSE x

\* C13: every rejection of a window middleware carries a retry_after that is
\* the time to the end of the window in whole seconds, at least 1 and at most
\* windowSize in seconds, also when the request arrives at the very start of
\* the window; X-RateLimit-Reset is the window end in Unix seconds and
\* reset - now differs from retry_after by rounding only.
C13_WindowRetryAfter ==
    \A r \in Reqs :
        (Rejected(r) /\ IsWindow(r))
        => LET W == req[r].cfg.WindowSize
               wend == Truncate(req[r].tnow, W) + W
               left == wend - req[r].tnow
               ra == req[r].body.retry_after
               reset == req[r].hdr["X-RateLimit-Reset"]
           IN  /\ ra >= 1
               /\ ra <= W \div TicksPerSecond
               /\ ra * TicksPerSecond >= left
               /\ (ra - 1) * TicksPerSecond <= left
               /\ reset = Unix(wend)
               /\ Abs((reset - Unix(req[r].tnow)) - ra) <= 1

\* C14: every rejection of the token bucket, whatever was admitted or rejected
\* before for the key, carries a retryAfter that is the time until the next
\* token in whole seconds, rounded up and at least 1, and X-RateLimit-Reset
\* (the Unix time one second ahead) agrees with it: reset - now differs from
\* retryAfter by rounding only.  (wait is the delay times the refill rate.)
C14_BucketRetryAfter ==
    \A r \in Reqs :
        (Rejected(r) /\ req[r].mode = "bucket")
        => LET den == req[r].cfg.RequestsPerSecond * TicksPerSecond
               ra == req[r].body.retry_after
               reset == req[r].hdr["X-RateLimit-Reset"]
           IN  /\ ra >= 1
               /\ ra * den >= req[r].wait
               /\ (ra - 1) * den <= req[r].wait
               /\ Abs((reset - Unix(req[r].at)) - ra) <= 1

\* a handler stands between the increment that created counter k and its
\* Expire call
Expiring(k) ==
    \E r \in Reqs : req[r].pc = "expire" /\ CountKey(req[r]) = k

\* C15: every counter in the store has a time-to-live, set by the request
\* whose increment returned 1 as soon as that request has gone on, so that no
\* counter stays in the store forever: also when the Expire call fails or the
\* handler never reaches it.
C15_CounterExpiry ==
    \A k \in StoreKeys :
        (Live(store[1][k], now) /\ ~Expiring(k)) => store[1][k].ttl

\* C16: a request of a window middleware that is cancelled while its increment
\* is pending gets no answer from the store: the call ends with the request
\* and the request is handled as for an unreachable store (passed on, no
\* header, no Expire).
C16_Cancellation ==
    \A r \in Reqs :
        (Done(r) /\ IsWindow(r) /\ req[r].cancelled)
        => /\ req[r].incrRes # "ok"
           /\ req[r].outcome = "next"
           /\ req[r].hdr = NoHeaders
           /\ req[r].nExp = 0

\* the partition key under which request r was counted
UsedKey(r) == req[r].key[1]

PartitionState(b) ==
    [bucket |-> IF limiters[0][b] = 0 THEN NewLimiter(0, 0)
                ELSE heap[limiters[0][b]],
     exists |-> limiters[0][b] # 0,
     counters |-> [u \in 0..Unix(MaxTime) |-> store[1][<<"ratelimit", b, u>>]],
     alive |-> ~crashed]

\* C18: a step in which no request with partition key b moves changes neither
\* the bucket nor a counter of b, nor anything else that decides the later
\* requests of b: this is so for the token bucket and the window middlewares
\* and for concurrent requests.
C18_PartitionIndependence ==
    [][\A b \in Addrs :
          (\A r \in Reqs : req[r].ip = b => req'[r] = req[r])
          => PartitionState(b)' = PartitionState(b)]_vars

C20_ConfigValidate ==
    (lib.pkg = "config" /\ lib.pc = "validated")
    => /\ (lib.err # "nil") <=>
             \/ lib.given.Database.Password = ""
             \/ lib.given.Auth.JWTSecret = ""
             \/ lib.given.Server.Port \notin 1..65535
       /\ lib.err \in {"nil", "database password is required",
                        "JWT secret is required",
                        "server port must be between 1 and 65535"}
       /\ lib.c = lib.given

C20_Witness ==
    /\ lib.pkg = "config" /\ lib.pc = "validated"
    /\ lib.err = "nil"
    /\ lib.c = AppConfig("testpass", "testsecret", 65535)

\* the requests of the policy of r (its configuration and middleware) that
\* the store counted for the key and window of r, up to r
CountedUnderPolicy(r) ==
    {q \in Reqs :
        /\ IsWindow(q) /\ req[q].nth > 0 /\ req[q].incrRes # "err"
        /\ req[q].cfg = req[r].cfg /\ req[q].mode = req[r].mode
        /\ req[q].key = req[r].key /\ req[q].nth <= req[r].nth}

\* C21: two window policies that share the store and see the same partition
\* key in the same window never increment the same counter, and a request is
\* rejected under a policy only when more than maxRequests requests of that
\* policy were counted for its key and window.
C21_PolicyIsolation ==
    /\ \A r, q \in Reqs :
          (/\ IsWindow(r) /\ IsWindow(q)
           /\ req[r].nIncr > 0 /\ req[q].nIncr > 0
           /\ req[r].db = req[q].db
           /\ req[r].key = req[q].key
           /\ (req[r].cfg # req[q].cfg \/ req[r].mode # req[q].mode))
          => CountKey(req[r]) # CountKey(req[q])
    /\ \A r \in Reqs :
          (Rejected(r) /\ IsWindow(r))
          => Cardinality(CountedUnderPolicy(r)) > req[r].cfg.MaxRequests

\* C22: a step of a token bucket handler that does not admit its request (the
\* failed Allow, the computation of retryAfter, the 429) leaves the token level
\* of the key's bucket, and with it the time of the next admission, as it was:
\* only an admitted request consumes a token.
C22_RejectionLeavesBucket ==
    [][\A r \in Reqs :
          (/\ req[r].pc \in {"allow", "reserve"}
           /\ req'[r] # req[r]
           /\ ~(req'[r].pc = "done" /\ req'[r].outcome = "next"))
          => advance(heap'[req[r].lim], now') = advance(heap[req[r].lim], now)]_vars

\* the end of the window that request r computed
WindowEnd(r) == Truncate(req[r].tnow, req[r].cfg.WindowSize) + req[r].cfg.WindowSize

\* the increment of r reached the store before the window of r ended
CountedInWindow(r) ==
    IsWindow(r) /\ req[r].nIncr > 0 /\ req[r].incrRes # "err" /\ req[r].inWin

Executed(g) ==
    {j \in Calls : /\ lib.calls[j].pc = "running" \/ lib.calls[j].reached
                   /\ lib.calls[j].before = g}

\* C24: the breaker of the Redis client leaves the closed state only when a
\* failure is recorded and, of the requests recorded in the current counting
\* interval, at least 3 were recorded and at least 60% failed, and it does
\* leave it then; with fewer requests or a lower ratio it stays closed.  A
\* call that finds the breaker open returns an error without reaching Redis.
C24_BreakerTrip ==
    lib.pkg = "cache" =>
    /\ lib.breaker.counts.Requests
          = Cardinality(Executed(lib.breaker.generation))
    /\ lib.breaker.counts.TotalFailures
          = Cardinality({j \in Executed(lib.breaker.generation) :
                            /\ lib.calls[j].pc = "done" /\ lib.calls[j].counted
                            /\ lib.calls[j].answer # "ok"})
    /\ lib.breaker.state = "closed"
          => lib.breaker.expiry <= lib.t + BreakerInterval
    /\ \A i \in Calls :
        LET c == lib.calls[i]
        IN  /\ (c.pc # "idle" /\ c.prior = "closed") => c.gate = "closed"
            /\ (c.pc = "done" /\ c.reached /\ c.found = "closed")
               => c.left <=>
                     /\ c.counted /\ c.answer # "ok"
                     /\ c.saw.Requests >= 3
                     /\ 10 * c.saw.TotalFailures >= 6 * c.saw.Requests
            /\ (c.pc # "idle" /\ c.gate = "open")
               => /\ c.pc = "done" /\ ~c.reached
                  /\ c.err \notin {"nil", "ErrCacheMiss"}

C24_Witness ==
    /\ lib.pkg = "cache"
    /\ \E i, j \in Calls :
          /\ lib.calls[i].left /\ lib.calls[i].saw.Requests = 3
          /\ lib.calls[i].saw.TotalFailures = 2
          /\ lib.calls[j].op = "IncrementBy" /\ lib.calls[j].gate = "open"
          /\ ~lib.calls[j].reached

\* C25: with Redis reachable, a Get of an absent key returns ErrCacheMiss and
\* is not recorded as a failure: whatever the number of misses, the breaker
\* stays closed, no failure is counted and no operation returns another error.
C25_MissIsNoFailure ==
    (lib.pkg = "cache" /\ lib.up)
    => /\ lib.breaker.state = "closed"
       /\ lib.breaker.counts.TotalFailures = 0
       /\ \A i \in Calls :
             lib.calls[i].pc = "done"
             => /\ lib.calls[i].reached
                /\ lib.calls[i].err =
                      (IF lib.calls[i].answer = "redis.Nil" THEN "ErrCacheMiss"
                       ELSE "nil")

\* C26: when CheckHealth has returned, every check of its snapshot has
\* finished and has exactly one result, there is no other result, and the
\* overall status is down iff a result is down, warning iff none is down and
\* one is warning, up otherwise, in whatever order the checks finished and the
\* results are visited; Handler answers 503 only for down, ReadinessHandler
\* for every status but up.
C26_HealthAggregation ==
    (lib.pkg = "health" /\ lib.pc = "done")
    => LET rs == {lib.results[n] : n \in DOMAIN lib.results}
       IN  /\ DOMAIN lib.results = lib.snapshot
           /\ (lib.status = "down") <=> ("down" \in rs)
           /\ (lib.status = "warning") <=> ("down" \notin rs /\ "warning" \in rs)
           /\ (lib.status = "up") <=> ("down" \notin rs /\ "warning" \notin rs)
           /\ lib.handler = "Handler"
                 => lib.code = (IF lib.status = "down" THEN 503 ELSE 200)
           /\ lib.handler = "ReadinessHandler"
                 => lib.code = (IF lib.status = "up" THEN 200 ELSE 503)

C26_Witness ==
    /\ lib.pkg = "health" /\ lib.pc = "done"
    /\ lib.handler = "ReadinessHandler" /\ lib.status = "warning"
    /\ lib.code = 503
    /\ Cardinality(lib.snapshot) = 2
    /\ \E n \in lib.snapshot : lib.results[n] = "up"
    /\ lib.checks # lib.snapshot

\* the elements of a list
Elems(s) == {s[i] : i \in DOMAIN s}

\* every check of the JWT middleware passes for the request at hand
Authenticated ==
    /\ lib.header.fields = 2 /\ lib.header.scheme = "Bearer" /\ lib.header.jwt
    /\ lib.header.token.alg = "HS256"
    /\ lib.header.token.signedWith = lib.config.JWTSecret
    /\ lib.header.token.claims.ExpiresAt.set
          => lib.header.token.claims.ExpiresAt.t > now
    /\ lib.config.Issuer # ""
          => lib.header.token.claims.Issuer = lib.config.Issuer

Authorized ==
    /\ lib.config.RequiredRoles # <<>>
          => Elems(lib.header.token.claims.Roles)
                \cap Elems(lib.config.RequiredRoles) # {}
    /\ lib.config.RequiredScopes # <<>>
          => Elems(lib.header.token.claims.Scopes)
                \cap Elems(lib.config.RequiredScopes) # {}

\* C27: for a path that is not skipped the JWT middleware calls the next
\* handler, and puts claims, user_id and tenant_id in the request context,
\* only for a request that passes every check; it aborts with 401 when the
\* header, the token, its expiry or its issuer fails, with 403 when the roles
\* or scopes fail, and then the context holds no claims.
C27_JWTGate ==
    (lib.pkg = "auth" /\ lib.handled > 0 /\ lib.path \notin lib.config.SkipPaths)
    => LET a == lib.answer
       IN  /\ a.next <=> (Authenticated /\ Authorized)
           /\ a.next => /\ a.status = 0
                        /\ a.claims = lib.header.token.claims
                        /\ a.values[StringKey("user_id")] = StringValue("u1")
                        /\ a.values[StringKey("tenant_id")] = StringValue("t1")
           /\ ~a.next => /\ a.claims = <<>> /\ a.values = NoValues
                         /\ a.status = (IF Authenticated THEN 403 ELSE 401)

C27_Witness ==
    /\ lib.pkg = "auth" /\ lib.handled = 1 /\ lib.path = "/api"
    /\ lib.answer.next
    /\ lib.config.RequiredRoles = <<"admin", "user">>
    /\ lib.config.RequiredScopes = <<"read">>
    /\ lib.config.Issuer = "pyairtable"
    /\ lib.header.token.claims.Roles = <<"user">>
    /\ lib.header.token.claims.ExpiresAt = NumericDate(1)
    /\ lib.answer.claims.UserID = "u1"

\* C28: requests without an X-Request-ID that arrive at different nanosecond
\* timestamps get different generated IDs; RequestLogging keeps an incoming
\* X-Request-ID as it is, and otherwise puts the generated ID in the response
\* header and in the request context.
C28_RequestIDs ==
    lib.pkg = "logging" =>
    /\ \A i, j \in DOMAIN lib.handled :
          (/\ lib.handled[i].incoming = NoID /\ lib.handled[j].incoming = NoID
           /\ lib.handled[i].at # lib.handled[j].at)
          => lib.handled[i].ctx # lib.handled[j].ctx
    /\ \A i \in DOMAIN lib.handled :
          LET h == lib.handled[i]
          IN  /\ h.incoming # NoID => (h.ctx = h.incoming /\ h.header = NoID)
              /\ h.incoming = NoID
                    => /\ h.ctx # NoID /\ h.header = h.ctx
                       /\ h.ctx[1] = "req_"

\* C29: a tenant on the enterprise plan can always create a workspace and
\* invite a user, whatever its numbers of workspaces and users; on the free,
\* basic and professional plans it can exactly while the number is below the
\* limit of the plan (3, 10, 50 workspaces; 5, 25, 100 users).
C29_UnlimitedPlans ==
    lib.pkg = "tenant" =>
    LET p == lib.t.PlanType
        maxW == CASE p = "free" -> 3 [] p = "basic" -> 10
                  [] p = "professional" -> 50 [] OTHER -> 0
        maxU == CASE p = "free" -> 5 [] p = "basic" -> 25
                  [] p = "professional" -> 100 [] OTHER -> 0
    IN  /\ ("workspace" \in lib.asked /\ p # "")
           => lib.canCreate = (p = "enterprise" \/ lib.t.Workspaces < maxW)
        /\ ("user" \in lib.asked /\ p # "")
           => lib.canInvite = (p = "enterprise" \/ lib.t.Users < maxU)

\* C30: from 0 <= Used <= Limit, every sequence of Allocate and Deallocate
\* calls with any amounts, negative ones included, keeps 0 <= Used <= Limit;
\* Allocate returns false, leaving Used as it was, exactly when Used + amount
\* would exceed Limit, and Deallocate never leaves Used below 0.
C30_QuotaBounds ==
    lib.pkg = "quota" =>
    /\ 0 <= lib.q.Used /\ lib.q.Used <= lib.q.Limit
    /\ lib.q.Limit = lib.before.Limit
    /\ lib.op = "Allocate"
       => /\ ~lib.ok <=> (lib.before.Used + lib.amount > lib.before.Limit)
          /\ ~lib.ok => lib.q.Used = lib.before.Used

====
